---------------------------- MODULE Spec2Model ----------------------------
(***************************************************************************)
(* A model of the architecture-governance pipeline of                      *)
(* src/ArchitectureGovernanceA2A/ArchGov.py (the ADK SequentialAgent       *)
(* pipeline, its catalog tool get_cmdb_data, its retry configuration and   *)
(* extract_json_from_events) and of the crew set-up of                     *)
(* src/ArchitectureGovernance/architecture_governance.py.                  *)
(*                                                                         *)
(* Text is a sequence of one-character strings, so that lower(), strip(),  *)
(* startswith() and json.loads() are computed and not assumed.             *)
(***************************************************************************)
EXTENDS Integers, Sequences, FiniteSets, TLC

VARIABLES
    cmdb_data,    \* the module-level catalog list (ArchGov.py:53)
    toolArg,      \* applicationName of the latest get_cmdb_data call
    toolResult,   \* what that call returned
    pc,           \* position of main(): "start", "running", "extract", "done", "crashed"
    stage,        \* index into sub_agents of the agent now running (0: none yet)
    called,       \* names of the sub-agents whose model call was issued, in order
    toolCalls,    \* get_cmdb_data calls made by the running agent
    attempt,      \* attempts made by the in-flight model call (0: none in flight)
    request,      \* the instruction sent with the latest model call
    delays,       \* back-off delays slept within the in-flight model call
    lastCode,     \* status code of the latest failed attempt of that call (0: none)
    error,        \* the exception that ended the run, or None
    events,       \* what runner.run_debug has collected (the response)
    result,       \* what extract_json_from_events returned to main()
    stdout,       \* what main() printed through json.dumps(result)
    crewPc,       \* position of architecture_governance.py's __main__ block
    crewDone,     \* crew tasks that have executed
    app,          \* an application record handed to the compliance rules
    finding       \* the finding the compliance rules give for app

vars == <<cmdb_data, toolArg, toolResult, pc, stage, called, toolCalls, attempt, request,
          delays, lastCode, error, events, result, stdout, crewPc, crewDone, app, finding>>

pipelineVars == <<pc, stage, called, toolCalls, attempt, request, delays, lastCode, error, events,
                  result, stdout>>
crewVars == <<crewPc, crewDone>>
ruleVars == <<app, finding>>
toolVars == <<toolArg, toolResult>>

-----------------------------------------------------------------------------
(* Values.  Python values of different types are tagged records [t, v].    *)

None == [t |-> "None", v |-> <<>>]
NotCalled == [t |-> "NotCalled", v |-> <<>>]
Str(s) == [t |-> "str", v |-> s]
Raised(kind, cause) == [t |-> "raise", v |-> <<kind, cause>>]

Range(s) == {s[i] : i \in DOMAIN s}

-----------------------------------------------------------------------------
(* Characters: str.lower(), str.strip(), str.join().                       *)

LowerLetters == <<"a","b","c","d","e","f","g","h","i","j","k","l","m","n","o","p","q","r","s","t","u","v","w","x","y","z">>
UpperLetters == <<"A","B","C","D","E","F","G","H","I","J","K","L","M","N","O","P","Q","R","S","T","U","V","W","X","Y","Z">>

\* The characters str.strip() removes (the ASCII ones).
StripSpace == {" ", "\t", "\n", "\r", "\f"}

LowerChar(c) ==
    IF \E k \in DOMAIN UpperLetters : UpperLetters[k] = c
    THEN LowerLetters[CHOOSE k \in DOMAIN UpperLetters : UpperLetters[k] = c]
    ELSE c

UpperChar(c) ==
    IF \E k \in DOMAIN LowerLetters : LowerLetters[k] = c
    THEN UpperLetters[CHOOSE k \in DOMAIN LowerLetters : LowerLetters[k] = c]
    ELSE c

\* str.lower()
Lower(s) == [i \in 1..Len(s) |-> LowerChar(s[i])]

Upper(s) == [i \in 1..Len(s) |-> UpperChar(s[i])]

\* str.strip(): drop the leading and the trailing whitespace.
Strip(s) ==
    LET keep == {i \in 1..Len(s) : s[i] \notin StripSpace}
    IN  IF keep = {} THEN <<>>
        ELSE LET lo == CHOOSE i \in keep : \A j \in keep : i <= j
                 hi == CHOOSE i \in keep : \A j \in keep : j <= i
             IN  SubSeq(s, lo, hi)

\* str.startswith(prefix)
StartsWith(s, prefix) ==
    /\ Len(prefix) <= Len(s)
    /\ SubSeq(s, 1, Len(prefix)) = prefix

RECURSIVE Join(_, _)
\* sep.join(items)
Join(sep, items) ==
    IF items = <<>> THEN <<>>
    ELSE IF Len(items) = 1 THEN items[1]
    ELSE items[1] \o sep \o Join(sep, Tail(items))

-----------------------------------------------------------------------------
(* The catalog (ArchGov.py:35-59).                                         *)

DeploymentEnv == [PROD |-> "prod", UAT |-> "uat", SANDBOX |-> "sandbox", QA |-> "qa"]

Compliance == [PCI |-> "PCI", GDPR |-> "GDPR", SOC2 |-> "SOC2"]

CmdbLiteral == <<
    [id |-> 1,
     name |-> <<"C","u","s","t","o","m","e","r"," ","P","a","y","m","e","n","t","s"," ","G","a","t","e","w","a","y">>,
     owner |-> "Finance Team", technology |-> "Java/Spring",
     deployment |-> DeploymentEnv.PROD,
     compliance |-> <<Compliance.PCI, Compliance.SOC2>>, users |-> 150000],
    [id |-> 2,
     name |-> <<"U","s","e","r"," ","D","a","t","a"," ","A","n","a","l","y","t","i","c","s">>,
     owner |-> "Marketing Team", technology |-> "Python/Flask",
     deployment |-> DeploymentEnv.UAT,
     compliance |-> <<Compliance.GDPR>>, users |-> 25000],
    [id |-> 3,
     name |-> <<"P","C","I"," ","F","e","a","t","u","r","e"," ","D","e","v">>,
     owner |-> "Payments Dev Team", technology |-> "Java/Spring",
     deployment |-> DeploymentEnv.SANDBOX,
     compliance |-> <<Compliance.PCI>>, users |-> 15],
    [id |-> 4,
     name |-> <<"I","n","t","e","r","n","a","l"," ","H","R"," ","P","o","r","t","a","l">>,
     owner |-> "HR Team", technology |-> "Node.js/React",
     deployment |-> DeploymentEnv.PROD,
     compliance |-> <<Compliance.SOC2>>, users |-> 800],
    [id |-> 5,
     name |-> <<"S","O","C","2"," ","S","t","a","g","i","n","g"," ","E","n","v">>,
     owner |-> "Core Platform", technology |-> "Go",
     deployment |-> DeploymentEnv.SANDBOX,
     compliance |-> <<Compliance.SOC2>>, users |-> 50] >>

\* The names that ask for every record (ArchGov.py:71).
AllSentinels == { <<"a","l","l">>, <<"l","i","s","t">>,
                  <<"e","v","e","r","y","t","h","i","n","g">>, <<>> }

SorryPrefix == <<"S","o","r","r","y",","," ","I"," ","d","o","n","'","t"," ","h","a","v","e"," ","i","n","f","o","r","m","a","t","i","o","n"," ","f","o","r"," ","'">>
SorryMiddle == <<"'","."," ","A","v","a","i","l","a","b","l","e"," ","a","p","p","l","i","c","a","t","i","o","n","s",":"," ">>
CommaSpace == <<",", " ">>

\* json.dumps(value, indent=2, default=str) of a list and of a dict: the text
\* that serialises value (kept as the value it serialises, under its own tag).
DumpsList(value) == [t |-> "dumps_list", v |-> value]
DumpsDict(value) == [t |-> "dumps_dict", v |-> value]

\* A comparison that forgets to lower-case the record's name.
NameMatches_caseSensitive(record, applicationName_lower) ==
    record.name = applicationName_lower

\* How get_cmdb_data compares a record's name with the normalised input.
NameMatches(record, applicationName_lower) ==
    Lower(record.name) = applicationName_lower

\* How get_cmdb_data normalises its argument.
Normalise(applicationName) == Strip(Lower(applicationName))

\* get_cmdb_data(applicationName) over the catalog as it is now.
get_cmdb_data(catalog, applicationName) ==
    LET applicationName_lower == Normalise(applicationName)
        hits == {i \in 1..Len(catalog) : NameMatches(catalog[i], applicationName_lower)}
    IN  IF applicationName_lower \in AllSentinels
        THEN DumpsList(catalog)
        ELSE IF hits # {}
        THEN DumpsDict(catalog[CHOOSE i \in hits : \A j \in hits : i <= j])
        ELSE Str(SorryPrefix \o applicationName \o SorryMiddle
                 \o Join(CommaSpace, [i \in 1..Len(catalog) |-> catalog[i].name]))

-----------------------------------------------------------------------------
(* json.loads (ArchGov.py:222) on the JSON this model's texts can hold:    *)
(* arrays, objects, strings without escapes, unsigned integers, and the    *)
(* literals true, false, null; whitespace as JSON defines it.              *)

JsonSpace == {" ", "\t", "\n", "\r"}

Digits == <<"0","1","2","3","4","5","6","7","8","9">>

IsDigit(c) == c \in Range(Digits)

DigitValue(c) == (CHOOSE k \in DOMAIN Digits : Digits[k] = c) - 1

Num(n) == [t |-> "num", v |-> n]
Arr(items) == [t |-> "arr", v |-> items]
Obj(members) == [t |-> "obj", v |-> members]
Bool(b) == [t |-> "bool", v |-> b]

ParseFail == [ok |-> FALSE, val |-> None, next |-> 0]
ParseOk(val, next) == [ok |-> TRUE, val |-> val, next |-> next]

RECURSIVE SkipSpace(_, _)
SkipSpace(s, i) ==
    IF i <= Len(s) /\ s[i] \in JsonSpace THEN SkipSpace(s, i + 1) ELSE i

RECURSIVE ScanNumber(_, _, _)
ScanNumber(s, i, acc) ==
    IF i <= Len(s) /\ IsDigit(s[i])
    THEN ScanNumber(s, i + 1, acc * 10 + DigitValue(s[i]))
    ELSE ParseOk(Num(acc), i)

\* A number: 0, or a non-zero digit followed by digits.
ParseNumber(s, i) ==
    IF s[i] = "0" THEN ParseOk(Num(0), i + 1) ELSE ScanNumber(s, i, 0)

\* A string starting at the quote s[i]: up to the next quote, no control
\* characters inside.
ParseString(s, i) ==
    LET closing == {j \in (i + 1)..Len(s) : s[j] = "\""}
    IN  IF closing = {} THEN ParseFail
        ELSE LET j == CHOOSE c \in closing : \A d \in closing : c <= d
                 body == SubSeq(s, i + 1, j - 1)
             IN  IF \E k \in DOMAIN body : body[k] \in {"\t", "\n", "\r", "\f"}
                 THEN ParseFail
                 ELSE ParseOk(Str(body), j + 1)

ParseLiteral(s, i) ==
    IF SubSeq(s, i, i + 3) = <<"t","r","u","e">> THEN ParseOk(Bool(TRUE), i + 4)
    ELSE IF SubSeq(s, i, i + 4) = <<"f","a","l","s","e">> THEN ParseOk(Bool(FALSE), i + 5)
    ELSE IF SubSeq(s, i, i + 3) = <<"n","u","l","l">> THEN ParseOk(None, i + 4)
    ELSE ParseFail

\* dict assignment: the last value given for a key wins.
PutMember(members, key, val) ==
    [k \in DOMAIN members \cup {key} |-> IF k = key THEN val ELSE members[k]]

RECURSIVE ParseValue(_, _), ParseElems(_, _, _), ParseMembers(_, _, _)
ParseValue(s, i) ==
    IF i > Len(s) THEN ParseFail
    ELSE IF s[i] = "["
    THEN LET j == SkipSpace(s, i + 1)
         IN  IF j <= Len(s) /\ s[j] = "]" THEN ParseOk(Arr(<<>>), j + 1)
             ELSE ParseElems(s, j, <<>>)
    ELSE IF s[i] = "{"
    THEN LET j == SkipSpace(s, i + 1)
         IN  IF j <= Len(s) /\ s[j] = "}" THEN ParseOk(Obj(<<>>), j + 1)
             ELSE ParseMembers(s, j, <<>>)
    ELSE IF s[i] = "\"" THEN ParseString(s, i)
    ELSE IF IsDigit(s[i]) THEN ParseNumber(s, i)
    ELSE IF i + 3 <= Len(s) THEN ParseLiteral(s, i)
    ELSE ParseFail

ParseElems(s, i, acc) ==
    LET r == ParseValue(s, i)
    IN  IF ~r.ok THEN ParseFail
        ELSE LET j == SkipSpace(s, r.next)
             IN  IF j > Len(s) THEN ParseFail
                 ELSE IF s[j] = "," THEN ParseElems(s, SkipSpace(s, j + 1), Append(acc, r.val))
                 ELSE IF s[j] = "]" THEN ParseOk(Arr(Append(acc, r.val)), j + 1)
                 ELSE ParseFail

ParseMembers(s, i, acc) ==
    IF i > Len(s) \/ s[i] # "\"" THEN ParseFail
    ELSE LET key == ParseString(s, i)
         IN  IF ~key.ok THEN ParseFail
             ELSE LET c == SkipSpace(s, key.next)
                  IN  IF c > Len(s) \/ s[c] # ":" THEN ParseFail
                      ELSE LET r == ParseValue(s, SkipSpace(s, c + 1))
                           IN  IF ~r.ok THEN ParseFail
                               ELSE LET j == SkipSpace(s, r.next)
                                        put == PutMember(acc, key.val.v, r.val)
                                    IN  IF j > Len(s) THEN ParseFail
                                        ELSE IF s[j] = "," THEN ParseMembers(s, SkipSpace(s, j + 1), put)
                                        ELSE IF s[j] = "}" THEN ParseOk(Obj(put), j + 1)
                                        ELSE ParseFail

\* json.loads(text): one value, with nothing but whitespace around it.
json_loads(text) ==
    LET r == ParseValue(text, SkipSpace(text, 1))
    IN  IF r.ok /\ SkipSpace(text, r.next) = Len(text) + 1 THEN r ELSE ParseFail

-----------------------------------------------------------------------------
(* extract_json_from_events (ArchGov.py:210-227).                          *)
(* An event is [author, hasContent, parts]: hasContent says that           *)
(* event.content is there and has parts.  A part is [hasText, text]:       *)
(* hasText says that the part has a text attribute, and text is Str(chars) *)
(* or None (a function-call or function-response part: a types.Part has    *)
(* every field, and the ones not set are None).                            *)

TextPart(chars) == [kind |-> "text", hasText |-> TRUE, text |-> Str(chars)]
FunctionCallPart == [kind |-> "function_call", hasText |-> TRUE, text |-> None]
FunctionResponsePart == [kind |-> "function_response", hasText |-> TRUE, text |-> None]
Event(author, parts) == [author |-> author, hasContent |-> TRUE, parts |-> parts]

Continue == [t |-> "continue", v |-> <<>>]

\* The test of ArchGov.py:220 on a part that carries text.
PartIsCandidate(chars) == StartsWith(Strip(chars), <<"[">>)

\* ArchGov.py:221-226: json.loads, and None when it raises.
LoadOrNone(chars) ==
    LET r == json_loads(chars) IN IF r.ok THEN r.val ELSE None

RECURSIVE ScanParts(_, _)
\* The inner loop over event.content.parts, from part k on.
ScanParts(parts, k) ==
    IF k > Len(parts) THEN Continue
    ELSE LET part == parts[k]
         IN  IF ~part.hasText THEN ScanParts(parts, k + 1)
             ELSE IF part.text = None
             THEN Raised("AttributeError", "NoneType has no attribute strip")
             ELSE IF PartIsCandidate(part.text.v) THEN LoadOrNone(part.text.v)
             ELSE ScanParts(parts, k + 1)

\* A loop that visits the events oldest first.
Reversed_oldestFirst(evs) == evs

\* reversed(events): the order in which the outer loop visits the events.
Reversed(evs) == [i \in 1..Len(evs) |-> evs[Len(evs) + 1 - i]]

RECURSIVE ScanEvents(_, _)
\* The outer loop, from position k of the visiting order on.
ScanEvents(order, k) ==
    IF k > Len(order) THEN None
    ELSE LET event == order[k]
             r == IF event.hasContent THEN ScanParts(event.parts, 1) ELSE Continue
         IN  IF r = Continue THEN ScanEvents(order, k + 1) ELSE r

\* response is [t |-> "list", v |-> events] or [t |-> "event", v |-> event].
extract_json_from_events(response) ==
    LET evs == IF response.t = "list" THEN response.v ELSE <<response.v>>
    IN  ScanEvents(Reversed(evs), 1)

-----------------------------------------------------------------------------
(* The retry configuration (ArchGov.py:26-31) and what the model client    *)
(* does with it: attempts counts every attempt, the first included; an     *)
(* error is retried when its status code is listed; the k-th failed        *)
(* attempt is followed by a wait of initial_delay * exp_base^(k-1).        *)

retry_config == [attempts |-> 5, exp_base |-> 7, initial_delay |-> 1,
                 http_status_codes |-> {429, 500, 503, 504}]

\* The status codes a failing model call may come back with.
ErrorCodes == {400, 403, 429, 500, 503, 504}

\* A client that retries whatever the status code.
IsRetryable_any(code) == code \in ErrorCodes

IsRetryable(code) == code \in retry_config.http_status_codes

\* A budget that counts retries and not attempts.
HasBudget_inclusive(n) == n <= retry_config.attempts

HasBudget(n) == n < retry_config.attempts

\* Whether the n-th attempt, failed with code, is followed by another.
ShouldRetry(code, n) == IsRetryable(code) /\ HasBudget(n)

\* The configured wait after the n-th failed attempt.
BackoffDelay(n) == retry_config.initial_delay * retry_config.exp_base ^ (n - 1)

-----------------------------------------------------------------------------
(* The agents (ArchGov.py:86-192) and the pipeline (ArchGov.py:201-208).   *)

\* An instruction is a sequence of segments: the prose of the source lines
\* from..to, a placeholder written ${expr} in the instruction's text, or a value
\* put in a placeholder's place.
Prose(from, to) == [kind |-> "prose", body |-> <<from, to>>]
Placeholder(expr) == [kind |-> "placeholder", body |-> expr]
Inserted(value) == [kind |-> "value", body |-> value]

NonCompliantAppsExpr == <<"J","S","O","N",".","s","t","r","i","n","g","i","f","y","(","n","o","n","C","o","m","p","l","i","a","n","t","A","p","p","s",","," ","n","u","l","l",","," ","2",")">>
RisksPrettyExpr == <<"J","S","O","N",".","s","t","r","i","n","g","i","f","y","(","r","i","s","k","s",","," ","n","u","l","l",","," ","2",")">>
ComplianceResultsExpr == <<"J","S","O","N",".","s","t","r","i","n","g","i","f","y","(","c","o","m","p","l","i","a","n","c","e","R","e","s","u","l","t","s",".","f","i","l","t","e","r","(","r"," ","=",">"," ","!","r",".","i","s","C","o","m","p","l","i","a","n","t",")",")">>
RisksExpr == <<"J","S","O","N",".","s","t","r","i","n","g","i","f","y","(","r","i","s","k","s",")">>
RecommendationsExpr == <<"J","S","O","N",".","s","t","r","i","n","g","i","f","y","(","r","e","c","o","m","m","e","n","d","a","t","i","o","n","s",")">>
ReportExpr == <<"J","S","O","N",".","s","t","r","i","n","g","i","f","y","(","r","e","p","o","r","t",")">>

cmdb_agent ==
    [name |-> "cmdb_agent", tools |-> {"get_cmdb_data"},
     instruction |-> <<Prose(91, 92)>>]
compliance_agent ==
    [name |-> "compliance_validator", tools |-> {"get_cmdb_data"},
     instruction |-> <<Prose(103, 118)>>]
riskassessment_agent ==
    [name |-> "riskassessment", tools |-> {},
     instruction |-> <<Prose(128, 131), Placeholder(NonCompliantAppsExpr), Prose(134, 134)>>]
recommendation_agent ==
    [name |-> "recommendation", tools |-> {},
     instruction |-> <<Prose(143, 149), Placeholder(RisksPrettyExpr), Prose(152, 152)>>]
reporting_agent ==
    [name |-> "reporting", tools |-> {},
     instruction |-> <<Prose(161, 166), Placeholder(ComplianceResultsExpr),
                       Prose(167, 167), Placeholder(RisksExpr),
                       Prose(168, 168), Placeholder(RecommendationsExpr), Prose(170, 170)>>]
evaluation_agent ==
    [name |-> "evaluation", tools |-> {},
     instruction |-> <<Prose(179, 187), Placeholder(ReportExpr),
                       Prose(188, 188), Placeholder(RisksExpr), Prose(190, 190)>>]

\* The session state of a run: no agent has an output_key and nothing else
\* writes the state, so it has no key.
session_state == [key \in {} |-> None]

IdentifierChars == Range(LowerLetters) \cup Range(UpperLetters) \cup Range(Digits) \cup {"_"}

IsIdentifier(chars) ==
    /\ chars # <<>>
    /\ \A k \in DOMAIN chars : chars[k] \in IdentifierChars
    /\ chars[1] \notin Range(Digits)

\* What the agent framework does to an instruction before it sends it: a
\* braced name that is a key of the session state gives way to the key's
\* value; any other braced text stays as it is written.
inject_session_state(instruction, state) ==
    [k \in DOMAIN instruction |->
        LET segment == instruction[k]
        IN  IF /\ segment.kind = "placeholder"
               /\ IsIdentifier(segment.body)
               /\ segment.body \in DOMAIN state
            THEN Inserted(state[segment.body])
            ELSE segment]

\* A pipeline with two of its sub-agents in the other order.
sub_agents_reordered == <<compliance_agent, recommendation_agent, riskassessment_agent,
                          reporting_agent, evaluation_agent>>

\* root_agent.sub_agents
sub_agents == <<compliance_agent, riskassessment_agent, recommendation_agent,
                reporting_agent, evaluation_agent>>

\* Tool calls one agent makes before it answers (the model decides; bounded).
MaxToolCalls == 1

\* What the reasoning service may answer with.
RawArray == <<"[", "1", "]">>
BrokenArray == <<"[", "1", ",">>
RawObject == <<"{", "\"", "s", "\"", ":", "1", "}">>
\* A fenced code block.  The fence mark stands for the backtick (which a TLA+
\* string cannot hold): like it, it is neither whitespace nor a JSON token.
FenceMark == "~"
Fenced(chars) == <<FenceMark, FenceMark, FenceMark, "\n">> \o chars
                 \o <<"\n", FenceMark, FenceMark, FenceMark>>
WithProse(chars) == <<"o", "k", ":", " ">> \o chars
Padded(chars) == <<" ", "\n">> \o chars \o <<"\n">>

\* A finding about an application id the catalog does not hold.
UnknownFinding == <<"[", "{", "\"", "a","p","p","l","i","c","a","t","i","o","n","I","d", "\"", ":", "9", "}", "]">>

Texts == {RawArray, BrokenArray, RawObject, Fenced(RawArray), UnknownFinding}

\* The names the compliance agent may pass to get_cmdb_data.
ToolNames == { <<"a","l","l">>, <<>>, <<" ","p","c","i"," ","F","E","A","T","U","R","E"," ","d","e","v">>,
               <<"U","n","k","n","o","w","n"," ","A","p","p">> }

\* json.dumps(result, indent=2): the text that serialises result.
Dumps(value) == [t |-> "dumps", v |-> value]

\* main(): runner.run_debug(...) starts the pipeline at its first sub-agent.
RunDebug ==
    /\ pc = "start"
    /\ pc' = "running"
    /\ stage' = 1
    /\ UNCHANGED <<called, toolCalls, attempt, request, delays, lastCode, error, events, result, stdout>>
    /\ UNCHANGED <<cmdb_data, toolVars, crewVars, ruleVars>>

\* The running sub-agent sends its request to the model (first attempt).
CallModel ==
    /\ pc = "running"
    /\ attempt = 0
    /\ attempt' = 1
    /\ delays' = <<>>
    /\ lastCode' = 0
    /\ called' = Append(called, sub_agents[stage].name)
    /\ request' = inject_session_state(sub_agents[stage].instruction, session_state)
    /\ UNCHANGED <<pc, stage, toolCalls, error, events, result, stdout>>
    /\ UNCHANGED <<cmdb_data, toolVars, crewVars, ruleVars>>

\* The attempt in flight fails with a status code: wait and try again, or
\* raise, which ends run_debug and main() with the error.
ModelError(code) ==
    /\ pc = "running"
    /\ attempt >= 1
    /\ lastCode' = code
    /\ IF ShouldRetry(code, attempt)
       THEN /\ attempt' = attempt + 1
            /\ delays' = Append(delays, BackoffDelay(attempt))
            /\ UNCHANGED <<pc, error>>
       ELSE /\ pc' = "crashed"
            /\ error' = Raised("APIError", code)
            /\ UNCHANGED <<attempt, delays>>
    /\ UNCHANGED <<stage, called, toolCalls, request, events, result, stdout>>
    /\ UNCHANGED <<cmdb_data, toolVars, crewVars, ruleVars>>

\* The attempt in flight is answered with text: the agent's final event; the
\* SequentialAgent goes on to the next sub-agent, whatever the text is.
ModelText(chars) ==
    /\ pc = "running"
    /\ attempt >= 1
    /\ events' = Append(events, Event(sub_agents[stage].name, <<TextPart(chars)>>))
    /\ attempt' = 0
    /\ delays' = <<>>
    /\ lastCode' = 0
    /\ toolCalls' = 0
    /\ IF stage = Len(sub_agents)
       THEN pc' = "extract" /\ stage' = stage
       ELSE pc' = pc /\ stage' = stage + 1
    /\ UNCHANGED <<called, request, error, result, stdout>>
    /\ UNCHANGED <<cmdb_data, toolVars, crewVars, ruleVars>>

\* The attempt in flight is answered with a call of get_cmdb_data: the tool
\* runs, both events are recorded, and the agent asks the model again.
ModelFunctionCall(name) ==
    /\ pc = "running"
    /\ attempt >= 1
    /\ "get_cmdb_data" \in sub_agents[stage].tools
    /\ toolCalls < MaxToolCalls
    /\ toolArg' = name
    /\ toolResult' = get_cmdb_data(cmdb_data, name)
    /\ events' = events \o << Event(sub_agents[stage].name, <<FunctionCallPart>>),
                              Event(sub_agents[stage].name, <<FunctionResponsePart>>) >>
    /\ toolCalls' = toolCalls + 1
    /\ attempt' = 0
    /\ delays' = <<>>
    /\ lastCode' = 0
    /\ UNCHANGED <<pc, stage, called, request, error, result, stdout>>
    /\ UNCHANGED <<cmdb_data, crewVars, ruleVars>>

\* main(), ArchGov.py:237-238: extract from the whole response and print.
ExtractAndPrint ==
    /\ pc = "extract"
    /\ LET r == extract_json_from_events([t |-> "list", v |-> events])
       IN  IF r.t = "raise"
           THEN /\ pc' = "crashed"
                /\ error' = r
                /\ UNCHANGED <<result, stdout>>
           ELSE /\ pc' = "done"
                /\ result' = r
                /\ stdout' = Dumps(r)
                /\ UNCHANGED error
    /\ UNCHANGED <<stage, called, toolCalls, attempt, request, delays, lastCode, events>>
    /\ UNCHANGED <<cmdb_data, toolVars, crewVars, ruleVars>>

-----------------------------------------------------------------------------
(* architecture_governance.py: the __main__ block builds the agents, the   *)
(* tasks and the Crew, then crew.kickoff() runs the tasks in order.        *)

\* Whether the name Process is bound (architecture_governance.py:2 imports
\* Agent, Task and Crew only; line 196 reads Process.sequential).
ProcessImported == FALSE

\* crew.tasks (architecture_governance.py:188-194)
crew_tasks == <<"data_aggregation_task", "compliance_task", "risk_assessment_task",
                "remediation_recommendation_task", "report_generation_task">>

CrewMain ==
    /\ crewPc = "start"
    /\ IF ProcessImported
       THEN crewPc' = "done" /\ crewDone' = crew_tasks
       ELSE crewPc' = "NameError" /\ crewDone' = crewDone
    /\ UNCHANGED <<cmdb_data, toolVars, ruleVars, pipelineVars>>

-----------------------------------------------------------------------------
(* The pipeline's specification.                                           *)

NoApp == [id |-> 0, name |-> <<>>, owner |-> "", technology |-> "",
          deployment |-> "", compliance |-> <<>>, users |-> 0]

IdleRest ==
    /\ cmdb_data = CmdbLiteral
    /\ toolArg = <<>>
    /\ toolResult = NotCalled
    /\ app = NoApp
    /\ finding = NotCalled

IdlePipeline ==
    /\ pc = "start"
    /\ stage = 0
    /\ called = <<>>
    /\ toolCalls = 0
    /\ attempt = 0
    /\ request = NotCalled
    /\ delays = <<>>
    /\ lastCode = 0
    /\ error = None
    /\ events = <<>>
    /\ result = NotCalled
    /\ stdout = NotCalled

Init ==
    /\ IdleRest
    /\ IdlePipeline
    /\ crewPc = "start"
    /\ crewDone = <<>>

Next ==
    \/ RunDebug
    \/ CallModel
    \/ \E code \in ErrorCodes : ModelError(code)
    \/ \E chars \in Texts : ModelText(chars)
    \/ \E name \in ToolNames : ModelFunctionCall(name)
    \/ ExtractAndPrint
    \/ CrewMain

Spec == Init /\ [][Next]_vars

-----------------------------------------------------------------------------
(* get_cmdb_data on its own: any caller, any name of a bounded set.        *)

UnknownApp == <<"U","n","k","n","o","w","n"," ","A","p","p">>

\* Names to build inputs from: the catalog's, the sentinels, and others.
BaseNames ==
    {CmdbLiteral[i].name : i \in DOMAIN CmdbLiteral} \cup AllSentinels
    \cup { UnknownApp, <<"a","l">>, <<"a"," ","l","l">>, <<"a","l","l"," ","a","p","p","s">>,
           <<"P","C","I"," ","F","e","a","t","u","r","e">>,
           <<"P","C","I"," "," ","F","e","a","t","u","r","e"," ","D","e","v">> }

\* Every other letter in upper case, the rest in lower case.
MixCase(s) == [i \in 1..Len(s) |-> IF i % 2 = 1 THEN UpperChar(s[i]) ELSE LowerChar(s[i])]

PaddingsBefore == { <<>>, <<" ">> }
PaddingsAfter == { <<>>, <<"\t", "\n">> }

LookupNames ==
    { before \o cased \o after :
        before \in PaddingsBefore, after \in PaddingsAfter,
        cased \in UNION { {b, Lower(b), Upper(b), MixCase(b)} : b \in BaseNames } }

\* A lookup that turns the catalog list around in place as it reads it.
LookupCall_reordering(name) ==
    /\ toolArg' = name
    /\ toolResult' = get_cmdb_data(cmdb_data, name)
    /\ cmdb_data' = Reversed(cmdb_data)
    /\ UNCHANGED <<pipelineVars, crewVars, ruleVars>>

\* One call of get_cmdb_data(name), by any caller: the function has no await,
\* so calls of concurrent runs happen one after the other, in any order.
LookupCall(name) ==
    /\ toolArg' = name
    /\ toolResult' = get_cmdb_data(cmdb_data, name)
    /\ UNCHANGED <<cmdb_data, pipelineVars, crewVars, ruleVars>>

InitLookup == Init

NextLookup == \E name \in LookupNames : LookupCall(name)

SpecLookup == InitLookup /\ [][NextLookup]_vars

-----------------------------------------------------------------------------
(* The compliance rules of the compliance agent's instruction              *)
(* (ArchGov.py:107-118), as the function of a record that a reasoning      *)
(* service following the instruction computes.                             *)

GdprUserLimit == 10000

SubjectTo(record, obligation) == obligation \in Range(record.compliance)

PciRule(record) ==
    /\ SubjectTo(record, Compliance.PCI)
    /\ record.deployment \in {DeploymentEnv.SANDBOX, DeploymentEnv.QA}

\* The GDPR rule without its user threshold.
GdprRule_noLimit(record) ==
    /\ SubjectTo(record, Compliance.GDPR)
    /\ record.deployment = DeploymentEnv.UAT

GdprRule(record) ==
    /\ SubjectTo(record, Compliance.GDPR)
    /\ record.users > GdprUserLimit
    /\ record.deployment = DeploymentEnv.UAT

Soc2Rule(record) ==
    /\ SubjectTo(record, Compliance.SOC2)
    /\ record.deployment = DeploymentEnv.SANDBOX

FailedRules(record) ==
    {rule \in {"PCI", "GDPR", "SOC2"} :
        \/ rule = "PCI" /\ PciRule(record)
        \/ rule = "GDPR" /\ GdprRule(record)
        \/ rule = "SOC2" /\ Soc2Rule(record)}

\* One object of the array the instruction asks for.
compliance_validator(record) ==
    [applicationId |-> record.id,
     appName |-> record.name,
     isCompliant |-> FailedRules(record) = {},
     reason |-> IF FailedRules(record) = {} THEN None ELSE Str(FailedRules(record))]

ObligationLists ==
    { <<>>, <<"PCI">>, <<"GDPR">>, <<"SOC2">>, <<"PCI", "GDPR">>, <<"PCI", "SOC2">>,
      <<"GDPR", "SOC2">>, <<"PCI", "GDPR", "SOC2">> }

Records ==
    Range(CmdbLiteral) \cup
    { [id |-> 9, name |-> <<"x">>, owner |-> "o", technology |-> "t",
       deployment |-> d, compliance |-> c, users |-> u] :
         d \in {"prod", "uat", "sandbox", "qa"}, c \in ObligationLists,
         u \in {0, 9999, 10000, 10001} }

Validate(record) ==
    /\ app' = record
    /\ finding' = compliance_validator(record)
    /\ UNCHANGED <<cmdb_data, toolVars, pipelineVars, crewVars>>

InitRules == Init

NextRules == \E record \in Records : Validate(record)

SpecRules == InitRules /\ [][NextRules]_vars

-----------------------------------------------------------------------------
(* extract_json_from_events on its own: any response of a bounded set.     *)

\* Events in a response.
MaxEvents == 2

OtherArray == <<"[", "2", "]">>

ExtractTexts == {RawArray, OtherArray, Fenced(RawArray), WithProse(RawArray),
                 BrokenArray, RawObject, Padded(RawArray)}

\* A part without a text attribute.
NoAttrPart == [kind |-> "other", hasText |-> FALSE, text |-> None]

PartChoices == {TextPart(chars) : chars \in ExtractTexts} \cup {FunctionCallPart, NoAttrPart}

PartLists ==
    { <<>> } \cup { <<p>> : p \in PartChoices }
    \cup { <<p, q>> : p \in {FunctionCallPart, NoAttrPart, TextPart(RawObject),
                             TextPart(RawArray), TextPart(BrokenArray)},
                      q \in PartChoices }

\* An event whose content is None.
NoContentEvent == [author |-> "agent", hasContent |-> FALSE, parts |-> <<>>]

EventChoices == {NoContentEvent} \cup {Event("agent", parts) : parts \in PartLists}

Responses == UNION { [1..n -> EventChoices] : n \in 0..MaxEvents }

\* extract_json_from_events(events) with a list.
ExtractList ==
    /\ pc = "extract"
    /\ result = NotCalled
    /\ result' = extract_json_from_events([t |-> "list", v |-> events])
    /\ UNCHANGED <<pc, stage, called, toolCalls, attempt, request, delays, lastCode, error, events, stdout>>
    /\ UNCHANGED <<cmdb_data, toolVars, crewVars, ruleVars>>

\* extract_json_from_events(event) with one event that is no list.
ExtractSingle ==
    /\ pc = "extract"
    /\ result = NotCalled
    /\ Len(events) = 1
    /\ result' = extract_json_from_events([t |-> "event", v |-> events[1]])
    /\ UNCHANGED <<pc, stage, called, toolCalls, attempt, request, delays, lastCode, error, events, stdout>>
    /\ UNCHANGED <<cmdb_data, toolVars, crewVars, ruleVars>>

InitExtract ==
    /\ IdleRest
    /\ pc = "extract"
    /\ stage = 0
    /\ called = <<>>
    /\ toolCalls = 0
    /\ attempt = 0
    /\ request = NotCalled
    /\ delays = <<>>
    /\ lastCode = 0
    /\ error = None
    /\ events \in Responses
    /\ result = NotCalled
    /\ stdout = NotCalled
    /\ crewPc = "start"
    /\ crewDone = <<>>

NextExtract == ExtractList \/ ExtractSingle

SpecExtract == InitExtract /\ [][NextExtract]_vars

-----------------------------------------------------------------------------
(* Properties.                                                             *)

FiveStageOrder == <<"compliance_validator", "riskassessment", "recommendation",
                    "reporting", "evaluation">>

StageIndex(name) == CHOOSE k \in DOMAIN FiveStageOrder : FiveStageOrder[k] = name

RECURSIVE Collapse(_)
\* A sequence with each run of equal neighbours reduced to one element.
Collapse(seq) ==
    IF Len(seq) <= 1 THEN seq
    ELSE IF seq[1] = seq[2] THEN Collapse(Tail(seq))
    ELSE <<seq[1]>> \o Collapse(Tail(seq))

IsPrefix(a, b) == Len(a) <= Len(b) /\ SubSeq(b, 1, Len(a)) = a

\* The events that carry an agent's text answer.
TextEvents == {i \in DOMAIN events :
                  events[i].hasContent /\ Len(events[i].parts) = 1
                  /\ events[i].parts[1].kind = "text"}

LookupEvents == {i \in DOMAIN events :
                    events[i].hasContent /\ Len(events[i].parts) = 1
                    /\ events[i].parts[1].kind = "function_call"}

TextOf(i) == events[i].parts[1].text.v

Parses(i) == json_loads(TextOf(i)).ok

RunCompleted == pc \in {"extract", "done"}

C2_Original ==
    \A n \in 2..Len(FiveStageOrder) :
        FiveStageOrder[n] \in Range(called) =>
            \E i \in TextEvents : events[i].author = FiveStageOrder[n - 1] /\ Parses(i)

\* C3 as stated: when a stage's response fails parsing, no later stage is
\* called, and the run ends with a failure report that carries the failing
\* stage and the raw text.
C3_Original ==
    \A i \in TextEvents :
        ~Parses(i) =>
            /\ \A n \in Range(called) : StageIndex(n) <= StageIndex(events[i].author)
            /\ pc \in {"done", "crashed"} =>
                   error = Raised("MalformedOutput", <<events[i].author, TextOf(i)>>)

RetryableCodes == {429, 500, 503, 504}

ConfiguredSchedule == <<1, 7, 49, 343>>

\* The run ended because a model call failed with a retryable code.
TransientFatal ==
    /\ pc = "crashed"
    /\ error.t = "raise"
    /\ error.v[1] = "APIError"
    /\ error.v[2] \in RetryableCodes

C5_RetryOnlyTransient ==
    /\ (pc = "running" /\ attempt >= 2) => lastCode \in RetryableCodes
    /\ pc # "crashed" => lastCode \in RetryableCodes \cup {0}
    /\ (pc = "crashed" /\ error.t = "raise" /\ error.v[1] = "APIError"
          /\ error.v[2] \notin RetryableCodes) =>
           /\ lastCode = error.v[2]
           /\ Len(delays) = attempt - 1
           /\ \A k \in DOMAIN delays : delays[k] = ConfiguredSchedule[k]

C5_Witness ==
    /\ pc = "crashed"
    /\ error = Raised("APIError", 400)
    /\ attempt = 1
    /\ delays = <<>>

JsonOne == Arr(<<Num(1)>>)

SinglePartResponse(chars) == events = <<Event("agent", <<TextPart(chars)>>)>>

\* C6 as stated: the extractor returns the same parsed value for the raw JSON
\* of a value, for that JSON in a fenced code block and for that JSON after
\* explanatory prose.
C6_Original ==
    result # NotCalled =>
        \A chars \in {RawArray, Fenced(RawArray), WithProse(RawArray)} :
            SinglePartResponse(chars) => result = JsonOne

\* C7 as stated: text that does not parse gives a MalformedOutput that keeps
\* the raw text, never a bare None, and an object-shaped payload is accepted
\* as an array-shaped one is.
C7_Original ==
    result # NotCalled =>
        /\ SinglePartResponse(BrokenArray) =>
               result = [t |-> "MalformedOutput", v |-> BrokenArray]
        /\ SinglePartResponse(RawObject) =>
               result = Obj([k \in {<<"s">>} |-> Num(1)])
        /\ SinglePartResponse(RawArray) => result = JsonOne

AllStagesParsed ==
    \A n \in DOMAIN FiveStageOrder :
        \E i \in TextEvents : events[i].author = FiveStageOrder[n] /\ Parses(i)

ArtifactOf(n) ==
    json_loads(TextOf(CHOOSE i \in TextEvents : events[i].author = FiveStageOrder[n])).val

\* C8 as stated: a run in which all stages succeed gives the caller one
\* object that holds the artifacts of all five stages.
C8_Original ==
    (pc = "done" /\ AllStagesParsed) =>
        /\ result.t = "obj"
        /\ \A n \in DOMAIN FiveStageOrder :
               \E key \in DOMAIN result.v : result.v[key] = ArtifactOf(n)

IsSpace(c) == c \in {" ", "\t", "\n", "\r", "\f"}

SameLetter(c, d) ==
    \/ c = d
    \/ \E k \in DOMAIN LowerLetters : {c, d} = {LowerLetters[k], UpperLetters[k]}

\* input, without the whitespace around it, is target up to the case of letters
\* (for a target that neither starts nor ends with whitespace).
EqualsTrimmedIgnoringCase(input, target) ==
    \E lo \in 1..(Len(input) + 1) :
        LET hi == lo + Len(target) - 1
        IN  /\ hi <= Len(input)
            /\ \A i \in 1..(lo - 1) : IsSpace(input[i])
            /\ \A i \in (hi + 1)..Len(input) : IsSpace(input[i])
            /\ \A k \in 1..Len(target) : SameLetter(input[lo + k - 1], target[k])

Contains(s, sub) ==
    \E i \in 1..(Len(s) - Len(sub) + 1) : SubSeq(s, i, i + Len(sub) - 1) = sub

\* C10: get_cmdb_data returns, without raising, the whole catalog in insertion
\* order when the trimmed, lower-cased name is "all", "list", "everything" or
\* empty; else the one record whose name equals the trimmed name up to case;
\* else a text that lists the names of all records.
C10_LookupOutcomes ==
    toolResult # NotCalled =>
        LET wantsAll ==
                \E s \in { <<"a","l","l">>, <<"l","i","s","t">>,
                           <<"e","v","e","r","y","t","h","i","n","g">>, <<>> } :
                    EqualsTrimmedIgnoringCase(toolArg, s)
            hits == {i \in DOMAIN CmdbLiteral :
                        EqualsTrimmedIgnoringCase(toolArg, CmdbLiteral[i].name)}
        IN  IF wantsAll THEN toolResult = DumpsList(CmdbLiteral)
            ELSE IF hits # {}
            THEN /\ Cardinality(hits) = 1
                 /\ toolResult = DumpsDict(CmdbLiteral[CHOOSE i \in hits : TRUE])
            ELSE /\ toolResult.t = "str"
                 /\ Contains(toolResult.v, toolArg)
                 /\ \A i \in DOMAIN CmdbLiteral : Contains(toolResult.v, CmdbLiteral[i].name)

C10_Witness ==
    /\ toolResult.t = "dumps_dict"
    /\ toolResult.v.id = 3
    /\ toolArg # toolResult.v.name

\* C11: get_cmdb_data has no side effect: after any sequence of calls, by any
\* callers in any order, the catalog holds the records of its initialisation in
\* the same order, and the result of a call is the one that the initial catalog
\* gives for the call's name, so a name has the same result every time.
C11_LookupIsPure ==
    /\ cmdb_data = CmdbLiteral
    /\ Len(cmdb_data) = 5
    /\ [i \in DOMAIN cmdb_data |-> cmdb_data[i].id] = <<1, 2, 3, 4, 5>>
    /\ toolResult # NotCalled => toolResult = get_cmdb_data(CmdbLiteral, toolArg)

C11_Witness ==
    /\ toolArg = <<"l","i","s","t">>
    /\ toolResult = DumpsList(CmdbLiteral)
    /\ cmdb_data = CmdbLiteral

\* The run ended because a model call failed for good.
ServiceFatal == pc = "crashed" /\ error.t = "raise" /\ error.v[1] = "APIError"

\* The parsed answers of the stages before stage n.
ArtifactsBefore(n) ==
    { json_loads(TextOf(i)).val :
        i \in {j \in TextEvents : Parses(j) /\ StageIndex(events[j].author) < n} }

\* value can be read from main()'s result.
Available(value) ==
    \/ result = value
    \/ result.t = "obj" /\ \E key \in DOMAIN result.v : result.v[key] = value
    \/ result.t = "arr" /\ \E k \in DOMAIN result.v : result.v[k] = value

\* C12 as stated: when a stage fails, by malformed output or by exhausted
\* retries, no further stage is called, the run ends as aborted (never as
\* done), and the artifacts of the earlier successful stages are available in
\* the run's result.
C12_Original ==
    /\ \A i \in TextEvents :
           ~Parses(i) =>
               /\ pc # "done"
               /\ Len(called) <= StageIndex(events[i].author)
               /\ pc = "crashed" =>
                      \A value \in ArtifactsBefore(StageIndex(events[i].author)) :
                          Available(value)
    /\ ServiceFatal =>
           /\ Len(called) = stage
           /\ \A value \in ArtifactsBefore(stage) : Available(value)

ApplicationIdKey == <<"a","p","p","l","i","c","a","t","i","o","n","I","d">>

CatalogIds == {Num(cmdb_data[i].id) : i \in DOMAIN cmdb_data}

\* The findings that the answer of event i lists.
FindingsOf(i) ==
    LET r == json_loads(TextOf(i))
    IN  IF r.ok /\ r.val.t = "arr"
        THEN {r.val.v[k] : k \in DOMAIN r.val.v}
        ELSE {}

\* f is a finding about an application that the catalog does not hold.
RefersToUnknown(f) ==
    /\ f.t = "obj"
    /\ ApplicationIdKey \in DOMAIN f.v
    /\ f.v[ApplicationIdKey] \notin CatalogIds

\* C13 as stated: the findings of compliance-validate and of risk-assess refer
\* to records of the catalog only: a finding with an unknown applicationId
\* aborts the run, so after it no later stage is called, the run does not end
\* as done, and the finding is not part of what main() prints.
C13_Original ==
    \A i \in TextEvents :
        (events[i].author \in {"compliance_validator", "riskassessment"}
           /\ \E f \in FindingsOf(i) : RefersToUnknown(f)) =>
            /\ Len(called) <= StageIndex(events[i].author)
            /\ pc # "done"
            /\ \A f \in FindingsOf(i) :
                   RefersToUnknown(f) => result.t # "arr" \/ f \notin Range(result.v)

\* The stages whose instruction is written with placeholders.
TemplatedStages == {"riskassessment", "recommendation", "reporting", "evaluation"}

\* C14 as stated: the instruction sent for risk-assess, recommend, report and
\* evaluate holds no placeholder any more: each was replaced by a value before
\* the instruction was sent.
C14_Original ==
    (request # NotCalled /\ called[Len(called)] \in TemplatedStages) =>
        /\ \A k \in DOMAIN request : request[k].kind # "placeholder"
        /\ \E k \in DOMAIN request : request[k].kind = "value"

\* What extract_json_from_events makes of the last event alone.
FromLastEvent ==
    IF events = <<>> THEN None
    ELSE extract_json_from_events([t |-> "event", v |-> events[Len(events)]])

\* C15 as stated: what extract_json_from_events returns for a sequence of
\* events is parsed from the last event of the sequence, never from an earlier
\* one: it is what the last event alone gives.
C15_Original == result # NotCalled => result = FromLastEvent

\* Every part of every event carries text.
PartsCarryText ==
    \A e \in DOMAIN events :
        events[e].hasContent =>
            \A p \in DOMAIN events[e].parts :
                events[e].parts[p].hasText /\ events[e].parts[p].text # None

\* <<e, p>>: part p of event e.
PartPositions ==
    UNION { {<<e, p>> : p \in DOMAIN events[e].parts} :
              e \in {i \in DOMAIN events : events[i].hasContent} }

PartText(pos) == events[pos[1]].parts[pos[2]].text.v

\* The text, without the whitespace before it, starts with "[".
TrimmedStartsWithBracket(chars) ==
    \E i \in DOMAIN chars :
        chars[i] = "[" /\ \A j \in 1..(i - 1) : IsSpace(chars[j])

BracketPositions == {pos \in PartPositions : TrimmedStartsWithBracket(PartText(pos))}

\* pos is inspected before other: it is in a newer event, or earlier in the
\* same event.
InspectedBefore(pos, other) ==
    \/ pos[1] > other[1]
    \/ pos[1] = other[1] /\ pos[2] < other[2]

=============================================================================
